---- MODULE Spec2Model ----
(***************************************************************************)
(* A model of youtube_transcript_extractor.py: the URL parser, the text    *)
(* normaliser, the transcript fetcher, the batch extractor, the exporter   *)
(* and the training-data chunker.  A Python str is a sequence of           *)
(* one-character strings; a Python dict is a sequence of <<key, value>>    *)
(* pairs in insertion order.                                               *)
(***************************************************************************)
EXTENDS Integers, Sequences, FiniteSets, TLC

\* ------------------------------------------------------------------ bounds
MaxUrls == 3
MaxTextLen == 7
MaxCleanLen == 5
MaxChunkLen == 5
MaxSuffixes == 1
MaxCues == 3

\* ------------------------------------------------------- Python str helpers
NL == "\n"

\* The characters str.split(), str.strip() and the regex class \s treat as
\* whitespace (of those that occur in the model's alphabets).
IsSpace(c) == c \in {" ", NL}

Max(a, b) == IF a >= b THEN a ELSE b

RECURSIVE Concat(_)
\* ''.join(parts)
Concat(parts) ==
    IF parts = <<>> THEN <<>> ELSE Head(parts) \o Concat(Tail(parts))

RECURSIVE Join(_, _)
\* sep.join(words)
Join(words, sep) ==
    IF words = <<>> THEN <<>>
    ELSE IF Len(words) = 1 THEN words[1]
    ELSE words[1] \o sep \o Join(Tail(words), sep)

RECURSIVE SplitFrom(_, _, _)
\* The scan of str.split(): cur is the word being read, text what is left.
SplitFrom(text, cur, acc) ==
    IF text = <<>> THEN (IF cur = <<>> THEN acc ELSE Append(acc, cur))
    ELSE IF IsSpace(Head(text))
         THEN SplitFrom(Tail(text), <<>>, IF cur = <<>> THEN acc ELSE Append(acc, cur))
         ELSE SplitFrom(Tail(text), Append(cur, Head(text)), acc)

\* text.split(): the maximal runs of non-whitespace characters, in order.
Split(text) == SplitFrom(text, <<>>, <<>>)

RECURSIVE LStrip(_)
LStrip(text) ==
    IF text # <<>> /\ IsSpace(Head(text)) THEN LStrip(Tail(text)) ELSE text

RECURSIVE RStrip(_)
RStrip(text) ==
    IF text # <<>> /\ IsSpace(text[Len(text)])
    THEN RStrip(SubSeq(text, 1, Len(text) - 1)) ELSE text

\* text.strip()
Strip(text) == RStrip(LStrip(text))

\* Whether the literal lit occurs in text at position i (1-based).
StartsAt(text, i, lit) ==
    /\ i >= 1
    /\ i + Len(lit) - 1 <= Len(text)
    /\ SubSeq(text, i, i + Len(lit) - 1) = lit

\* ------------------------------------------------------- the text normaliser

RECURSIVE CloseAfter(_, _, _)
\* The first close at or after j on the line of j - 1 ('.' matches no
\* newline), 0 when there is none.
CloseAfter(text, j, close) ==
    IF j > Len(text) THEN 0
    ELSE IF text[j] = close THEN j
    ELSE IF text[j] = NL THEN 0
    ELSE CloseAfter(text, j + 1, close)

\* The end of the match of  open .*? close  that starts at i, 0 when the
\* pattern does not match at i.
SpanEnd(text, i, open, close) ==
    IF text[i] # open THEN 0 ELSE CloseAfter(text, i + 1, close)

RECURSIVE RemoveFrom(_, _, _, _)
RemoveFrom(text, i, open, close) ==
    IF i > Len(text) THEN <<>>
    ELSE LET e == SpanEnd(text, i, open, close)
         IN IF e = 0 THEN <<text[i]>> \o RemoveFrom(text, i + 1, open, close)
            ELSE RemoveFrom(text, e + 1, open, close)

\* re.sub(r'\[.*?\]', '', text) and re.sub(r'\(.*?\)', '', text): every
\* leftmost non-overlapping non-greedy match is deleted.
RemoveSpans(text, open, close) == RemoveFrom(text, 1, open, close)

RECURSIVE CollapseRuns(_, _)
\* re.sub(r'X+', ' ', text) for a character class X: every maximal run of
\* characters of the class becomes one space.
CollapseRuns(text, class) ==
    IF text = <<>> THEN <<>>
    ELSE IF Head(text) \in class
         THEN IF Len(text) >= 2 /\ text[2] \in class
              THEN CollapseRuns(Tail(text), class)
              ELSE <<" ">> \o CollapseRuns(Tail(text), class)
         ELSE <<Head(text)>> \o CollapseRuns(Tail(text), class)

RECURSIVE LastCloseAfter(_, _, _, _)
\* The last close at or after j on the line of j - 1, found so far at last.
LastCloseAfter(text, j, close, last) ==
    IF j > Len(text) \/ text[j] = NL THEN last
    ELSE LastCloseAfter(text, j + 1, close, IF text[j] = close THEN j ELSE last)

RECURSIVE RemoveGreedyFrom(_, _, _, _)
RemoveGreedyFrom(text, i, open, close) ==
    IF i > Len(text) THEN <<>>
    ELSE LET e == IF text[i] # open THEN 0 ELSE LastCloseAfter(text, i + 1, close, 0)
         IN IF e = 0 THEN <<text[i]>> \o RemoveGreedyFrom(text, i + 1, open, close)
            ELSE RemoveGreedyFrom(text, e + 1, open, close)

\* clean_transcript_text with greedy patterns, \[.*\] and \(.*\).
MutCleanGreedy(text) ==
    LET t1 == RemoveGreedyFrom(text, 1, "[", "]")
        t2 == RemoveGreedyFrom(t1, 1, "(", ")")
        t3 == CollapseRuns(t2, {NL})
        t4 == CollapseRuns(t3, {" ", NL})
    IN Strip(t4)

clean_transcript_text(text) ==
    LET t1 == RemoveSpans(text, "[", "]")
        t2 == RemoveSpans(t1, "(", ")")
        t3 == CollapseRuns(t2, {NL})
        t4 == CollapseRuns(t3, {" ", NL})
    IN Strip(t4)

\* ------------------------------------------------------- the chunker

\* ChunkStep that does not count the separating space.
MutChunkStepForgetsSpace(word, chunks, current_chunk, current_length, max_chunk_length) ==
    IF current_length + Len(word) <= max_chunk_length
    THEN [chunks |-> chunks,
          current_chunk |-> Append(current_chunk, word),
          current_length |-> current_length + Len(word) + 1]
    ELSE [chunks |-> IF current_chunk # <<>>
                     THEN Append(chunks, Join(current_chunk, <<" ">>))
                     ELSE chunks,
          current_chunk |-> <<word>>,
          current_length |-> Len(word)]

\* ChunkStep that starts the new chunk without flushing the old one.
MutChunkStepForgetsFlush(word, chunks, current_chunk, current_length, max_chunk_length) ==
    IF current_length + Len(word) + 1 <= max_chunk_length
    THEN [chunks |-> chunks,
          current_chunk |-> Append(current_chunk, word),
          current_length |-> current_length + Len(word) + 1]
    ELSE [chunks |-> chunks,
          current_chunk |-> <<word>>,
          current_length |-> Len(word)]

\* The body of the for loop of chunk_text for one word.
ChunkStep(word, chunks, current_chunk, current_length, max_chunk_length) ==
    IF current_length + Len(word) + 1 <= max_chunk_length
    THEN [chunks |-> chunks,
          current_chunk |-> Append(current_chunk, word),
          current_length |-> current_length + Len(word) + 1]
    ELSE [chunks |-> IF current_chunk # <<>>
                     THEN Append(chunks, Join(current_chunk, <<" ">>))
                     ELSE chunks,
          current_chunk |-> <<word>>,
          current_length |-> Len(word)]

RECURSIVE ChunkLoop(_, _, _, _, _, _)
\* The for loop of chunk_text over words[i..], and the flush after it.
ChunkLoop(words, i, chunks, current_chunk, current_length, max_chunk_length) ==
    IF i > Len(words)
    THEN IF current_chunk # <<>>
         THEN Append(chunks, Join(current_chunk, <<" ">>))
         ELSE chunks
    ELSE LET st == ChunkStep(words[i], chunks, current_chunk, current_length,
                             max_chunk_length)
         IN ChunkLoop(words, i + 1, st.chunks, st.current_chunk,
                      st.current_length, max_chunk_length)

\* AITrainingDataPreparer(max_chunk_length).chunk_text(text)
chunk_text(text, max_chunk_length) ==
    ChunkLoop(Split(text), 1, <<>>, <<>>, 0, max_chunk_length)

\* ------------------------------------------------------- the URL parser

\* Optional[str]
None == [some |-> FALSE]
Some(v) == [some |-> TRUE, value |-> v]
\* Python truthiness of an Optional[str]: None and '' are false.
Truthy(opt) == opt.some /\ opt.value # <<>>

SchemeHttp == <<"h", "t", "t", "p", ":", "/", "/">>
SchemeHttps == <<"h", "t", "t", "p", "s", ":", "/", "/">>
Www == <<"w", "w", "w", ".">>
WatchCore ==
    <<"y", "o", "u", "t", "u", "b", "e", ".", "c", "o", "m", "/",
      "w", "a", "t", "c", "h", "?", "v", "=">>
ShortCore == <<"y", "o", "u", "t", "u", ".", "b", "e", "/">>
EmbedCore ==
    <<"y", "o", "u", "t", "u", "b", "e", ".", "c", "o", "m", "/",
      "e", "m", "b", "e", "d", "/">>

\* The literal part of each of the three patterns, in the order of the list;
\* every pattern is (?:https?://)?(?:www\.)?<literal>([^&\n?#]+).
patterns == <<WatchCore, ShortCore, EmbedCore>>

\* The class [^&\n?#] of the capturing group.
IdChar(c) == c \notin {"&", NL, "?", "#"}

\* Where the literal may start when the match starts at s: after the
\* optional scheme and the optional www.
AfterPrefix(url, s) ==
    LET a == {s} \cup {s + Len(p) : p \in {p \in {SchemeHttp, SchemeHttps} : StartsAt(url, s, p)}}
    IN a \cup {b + Len(Www) : b \in {b \in a : StartsAt(url, b, Www)}}

\* The positions of the first captured character over the matches of the
\* pattern that start at s.
CaptureStarts(url, s, core) ==
    {b + Len(core) : b \in {b \in AfterPrefix(url, s) :
        /\ StartsAt(url, b, core)
        /\ b + Len(core) <= Len(url)
        /\ IdChar(url[b + Len(core)])}}

RECURSIVE TakeId(_, _)
\* The greedy [^&\n?#]+ from position c.
TakeId(url, c) ==
    IF c <= Len(url) /\ IdChar(url[c]) THEN <<url[c]>> \o TakeId(url, c + 1) ELSE <<>>

RECURSIVE SearchFrom(_, _, _)
\* The scan of re.search: the start positions are tried from the left; at a
\* start the optional groups are greedy, so the match that consumes most is
\* the one found.
SearchFrom(core, url, s) ==
    IF s > Len(url) THEN None
    ELSE LET cs == CaptureStarts(url, s, core)
         IN IF cs = {} THEN SearchFrom(core, url, s + 1)
            ELSE Some(TakeId(url, CHOOSE d \in cs : \A e \in cs : d >= e))

\* re.search(pattern, url)
re_search(core, url) == SearchFrom(core, url, 1)

RECURSIVE FirstMatch(_, _)
\* for pattern in patterns: match = re.search(...); if match: return group(1)
FirstMatch(url, i) ==
    IF i > Len(patterns) THEN None
    ELSE LET match == re_search(patterns[i], url)
         IN IF match.some THEN match ELSE FirstMatch(url, i + 1)

extract_video_id(url) == FirstMatch(url, 1)

\* ------------------------------------------------------- calls and dicts

\* The outcome of a call: it returns a value or raises.
Return(v) == [kind |-> "return", value |-> v]
Raise(e) == [kind |-> "raise", error |-> e]

\* A dict is the sequence of its <<key, value>> items in insertion order.
DictHas(d, k) == \E i \in 1..Len(d) : d[i][1] = k
DictGet(d, k) == d[CHOOSE i \in 1..Len(d) : d[i][1] = k][2]
DictKeys(d) == [i \in 1..Len(d) |-> d[i][1]]

\* DictSet with the first value kept (results.setdefault(k, v)).
MutDictSetKeepsFirst(d, k, v) ==
    IF DictHas(d, k) THEN d ELSE Append(d, <<k, v>>)

\* d[k] = v: a new key is appended; an existing key keeps its place and
\* takes the new value.
DictSet(d, k, v) ==
    IF DictHas(d, k)
    THEN [i \in 1..Len(d) |-> IF d[i][1] = k THEN <<k, v>> ELSE d[i]]
    ELSE Append(d, <<k, v>>)

\* ------------------------------------------------------- the transcript fetcher

RECURSIVE ProcessCues(_, _, _, _)
\* The for loop over transcript_list: <<full_text, processed_segments>>.
ProcessCues(transcript_list, i, full_text, processed_segments) ==
    IF i > Len(transcript_list) THEN <<full_text, processed_segments>>
    ELSE LET entry == transcript_list[i]
             cleaned_text == clean_transcript_text(entry.text)
         IN ProcessCues(transcript_list, i + 1,
                        full_text \o cleaned_text \o <<" ">>,
                        Append(processed_segments,
                               [start |-> entry.start,
                                duration |-> IF "duration" \in DOMAIN entry
                                             THEN entry.duration ELSE 0,
                                text |-> cleaned_text]))

\* SuccessRecord with full_text returned as accumulated, not stripped.
MutSuccessRecordUnstripped(video_id, transcript_list) ==
    LET done == ProcessCues(transcript_list, 1, <<>>, <<>>)
    IN [video_id |-> video_id,
        full_text |-> done[1],
        segments |-> done[2],
        total_segments |-> Len(done[2]),
        status |-> "success"]

\* The try body of extract_single_transcript after get_transcript returned
\* transcript_list: the record it returns.
SuccessRecord(video_id, transcript_list) ==
    LET done == ProcessCues(transcript_list, 1, <<>>, <<>>)
    IN [video_id |-> video_id,
        full_text |-> Strip(done[1]),
        segments |-> done[2],
        total_segments |-> Len(done[2]),
        status |-> "success"]

\* extract_single_transcript without its except clause: the service's
\* exception leaves the call.
MutExtractSingleReraises(video_id, fetched) ==
    IF fetched.kind = "return"
    THEN Return(SuccessRecord(video_id, fetched.value))
    ELSE Raise(fetched.error)

\* extract_single_transcript(video_id), given what
\* YouTubeTranscriptApi.get_transcript(video_id) does: it returns the cues
\* (fetched.kind = "return") or raises (fetched.kind = "raise").
extract_single_transcript(video_id, fetched) ==
    IF fetched.kind = "return"
    THEN Return(SuccessRecord(video_id, fetched.value))
    ELSE Return([video_id |-> video_id,
                 error |-> fetched.error,
                 status |-> "failed"])

\* ------------------------------------------------------- the batch extractor

InvalidUrlRecord == [error |-> "Invalid YouTube URL", status |-> "failed"]

\* ExtractStep without the check of the parser's result: a URL that does not
\* parse is fetched as if it were an identifier.
MutExtractStepFetchesAll(url, fetched, results, calls) ==
    LET video_id == extract_video_id(url)
        id == IF Truthy(video_id) THEN video_id.value ELSE url
        result == extract_single_transcript(id, fetched)
    IN IF result.kind = "raise"
       THEN [kind |-> "raise", error |-> result.error, calls |-> Append(calls, id)]
       ELSE [kind |-> "return",
             value |-> DictSet(results, id, result.value),
             calls |-> Append(calls, id)]

\* One iteration of the for loop of extract_transcripts: url is parsed and,
\* when an identifier comes out, fetched; fetched is what the captioning
\* service does when it is called; calls is the list of identifiers the
\* service was called with.
ExtractStep(url, fetched, results, calls) ==
    LET video_id == extract_video_id(url)
    IN IF Truthy(video_id)
       THEN LET result == extract_single_transcript(video_id.value, fetched)
            IN IF result.kind = "raise"
               THEN [kind |-> "raise", error |-> result.error,
                     calls |-> Append(calls, video_id.value)]
               ELSE [kind |-> "return",
                     value |-> DictSet(results, video_id.value, result.value),
                     calls |-> Append(calls, video_id.value)]
       ELSE [kind |-> "return",
             value |-> DictSet(results, url, InvalidUrlRecord),
             calls |-> calls]

RECURSIVE ExtractLoop(_, _, _, _, _)
\* The for loop of extract_transcripts over urls[i..], and the return; an
\* exception that leaves an iteration leaves the loop.
ExtractLoop(urls, fetches, i, results, calls) ==
    IF i > Len(urls) THEN [kind |-> "return", value |-> results, calls |-> calls]
    ELSE LET step == ExtractStep(urls[i], fetches[i], results, calls)
         IN IF step.kind = "raise" THEN step
            ELSE ExtractLoop(urls, fetches, i + 1, step.value, step.calls)

extract_transcripts(urls, fetches) == ExtractLoop(urls, fetches, 1, <<>>, <<>>)

\* ------------------------------------------------------- the training preparer

\* One element of training_data.
TrainingChunk(video_id, i, chunk) ==
    [video_id |-> video_id, chunk_index |-> i, text |-> chunk]

\* PrepareItem with one counter over the whole of training_data.
MutPrepareItemGlobalIndex(video_id, data, training_data, max_chunk_length) ==
    IF data.status = "success"
    THEN LET text_chunks == chunk_text(data.full_text, max_chunk_length)
         IN training_data \o
              [i \in 1..Len(text_chunks) |->
                 TrainingChunk(video_id, Len(training_data) + i - 1, text_chunks[i])]
    ELSE training_data

\* The body of the for loop of prepare_for_training for one item of
\* transcripts.items(): training_data afterwards.
PrepareItem(video_id, data, training_data, max_chunk_length) ==
    IF data.status = "success"
    THEN LET text_chunks == chunk_text(data.full_text, max_chunk_length)
         IN training_data \o
              [i \in 1..Len(text_chunks) |->
                 TrainingChunk(video_id, i - 1, text_chunks[i])]
    ELSE training_data

RECURSIVE PrepareLoop(_, _, _, _)
\* The for loop of prepare_for_training over transcripts.items()[k..].
PrepareLoop(transcripts, k, training_data, max_chunk_length) ==
    IF k > Len(transcripts) THEN training_data
    ELSE PrepareLoop(transcripts, k + 1,
                     PrepareItem(transcripts[k][1], transcripts[k][2],
                                 training_data, max_chunk_length),
                     max_chunk_length)

prepare_for_training(transcripts, max_chunk_length) ==
    PrepareLoop(transcripts, 1, <<>>, max_chunk_length)

\* ------------------------------------------------------- the exporter

\* config.SUPPORTED_FORMATS
SUPPORTED_FORMATS == {"json", "txt", "csv"}

\* ensure_output_directory that creates nothing.
MutEnsureCreatesNothing(exists) == exists

\* ensure_output_directory: whether the output directory exists afterwards.
ensure_output_directory(exists) == IF ~exists THEN TRUE ELSE exists

\* os.path.join(self.output_dir, f"{filename}.{format}"), as the pair it is
\* built from.
FilePath(filename, format) == <<filename, format>>

RECURSIVE SuccessItems(_)
\* The items of the batch whose status is 'success', in order.
SuccessItems(transcripts) ==
    IF transcripts = <<>> THEN <<>>
    ELSE IF Head(transcripts)[2].status = "success"
         THEN <<Head(transcripts)>> \o SuccessItems(Tail(transcripts))
         ELSE SuccessItems(Tail(transcripts))

RECURSIVE CsvRows(_)
\* rows of the csv branch: one per segment of every success record.
CsvRows(items) ==
    IF items = <<>> THEN <<>>
    ELSE LET video_id == Head(items)[1]
             segs == Head(items)[2].segments
         IN [j \in 1..Len(segs) |->
               [video_id |-> video_id, start_time |-> segs[j].start,
                duration |-> segs[j].duration, text |-> segs[j].text]]
            \o CsvRows(Tail(items))

\* What each branch writes.
FileContent(transcripts, format) ==
    IF format = "json" THEN [json |-> transcripts]
    ELSE IF format = "txt"
         THEN [txt |-> [j \in 1..Len(SuccessItems(transcripts)) |->
                          <<SuccessItems(transcripts)[j][1],
                            SuccessItems(transcripts)[j][2].full_text>>]]
         ELSE [csv |-> CsvRows(SuccessItems(transcripts))]

\* open(filepath, 'w') and the writes, or DataFrame.to_csv(filepath): the
\* file is created or truncated and written when its directory exists, and
\* the call raises when it does not.
WriteFile(exists, files, path, content) ==
    IF exists
    THEN [kind |-> "return", value |-> path,
          files |-> [q \in DOMAIN files \cup {path} |->
                       IF q = path THEN content ELSE files[q]]]
    ELSE [kind |-> "raise", error |-> "FileNotFoundError", files |-> files]

\* save_transcripts with the file opened before the format is looked at.
MutSaveOpensFirst(exists, files, transcripts, format, filename) ==
    LET opened == WriteFile(exists, files, FilePath(filename, format),
                            FileContent(transcripts, format))
    IN IF format \notin SUPPORTED_FORMATS
       THEN [kind |-> "raise", error |-> "ValueError", files |-> opened.files]
       ELSE opened

\* save_transcripts(transcripts, format, filename) on a file system where the
\* output directory exists or not and holds files: the outcome of the call
\* and the files afterwards.
save_transcripts(exists, files, transcripts, format, filename) ==
    IF format \notin SUPPORTED_FORMATS
    THEN [kind |-> "raise", error |-> "ValueError", files |-> files]
    ELSE WriteFile(exists, files, FilePath(filename, format),
                   FileContent(transcripts, format))

\* ------------------------------------------------------- inputs

\* All sequences over alphabet of length at most n.
SeqsUpTo(alphabet, n) == UNION {[1..k -> alphabet] : k \in 0..n}

IdABC == <<"A", "B", "C", "1", "2", "3">>
IdXy == <<"x", "y">>

\* "https://youtu.be/ABC123"
UShort == SchemeHttps \o ShortCore \o IdABC
\* "not a url"
UNotUrl == <<"n", "o", "t", " ", "a", " ", "u", "r", "l">>
\* "http://youtube.com/watch?v=xy&t=1"
UWatch == SchemeHttp \o WatchCore \o IdXy \o <<"&", "t", "=", "1">>
\* "ABC123": a bare identifier, which is no URL of a recognised shape
URaw == IdABC

BatchUrls == {UShort, UNotUrl, UWatch, URaw}

\* What the captioning service may do for one call.
CuesA ==
    <<[start |-> 0, duration |-> 2, text |-> <<"a", " ", "[", "x", "]", " ", "b">>],
      [start |-> 2, duration |-> 1, text |-> <<"[", "y", "]">>],
      [start |-> 3, text |-> <<"c", "c", NL, "d">>]>>
CuesB == <<[start |-> 0, duration |-> 1, text |-> <<"(", "x", ")">>]>>
FetchRaises == Raise("TranscriptsDisabled")
FetchOutcomes == {FetchRaises, Return(CuesA), Return(CuesB)}

\* One outcome per URL; the outcome at an unparsable URL is never used.
FetchesFor(urls) ==
    {f \in [1..Len(urls) -> FetchOutcomes] :
        \A i \in 1..Len(urls) :
            ~Truthy(extract_video_id(urls[i])) => f[i] = FetchRaises}

\* ------------------------------------------------------- state

VARIABLES
    pc,                \* where the caller is
    input,             \* the argument of the pure function under check
    output,            \* what it returned
    urls,              \* the argument of extract_transcripts
    fetches,           \* what the captioning service did for each URL
    batch,             \* the outcome of extract_transcripts
    max_chunk_length,  \* AITrainingDataPreparer.max_chunk_length
    training_data,     \* what prepare_for_training returned
    dirExists,         \* whether output_dir exists
    files,             \* the files under output_dir: path -> content
    ret                \* the last operation on the extractor and its outcome

vars == <<pc, input, output, urls, fetches, batch, max_chunk_length,
          training_data, dirExists, files, ret>>

pureVars == <<input, output>>
batchVars == <<urls, fetches, batch, max_chunk_length, training_data>>
fsVars == <<dirExists, files, ret>>

NoPure == input = <<>> /\ output = <<>>
NoBatch ==
    /\ urls = <<>> /\ fetches = <<>> /\ batch = Return(<<>>)
    /\ max_chunk_length = 512 /\ training_data = <<>>
NoFs == dirExists = TRUE /\ files = <<>> /\ ret = [op |-> "none"]

\* ------------------------------------------------------- the pipeline

\* extractor = YouTubeTranscriptExtractor(); preparer = AITrainingDataPreparer()
Init ==
    /\ pc = "ready"
    /\ NoPure /\ NoBatch /\ NoFs

\* transcripts = extractor.extract_transcripts(urls)
ExtractTranscripts ==
    /\ pc = "ready"
    /\ \E us \in SeqsUpTo(BatchUrls, MaxUrls) : \E fs \in FetchesFor(us) :
        /\ urls' = us
        /\ fetches' = fs
        /\ batch' = extract_transcripts(us, fs)
        /\ pc' = IF batch'.kind = "return" THEN "extracted" ELSE "raised"
    /\ UNCHANGED <<max_chunk_length, training_data>>
    /\ UNCHANGED pureVars /\ UNCHANGED fsVars

\* training_data = AITrainingDataPreparer(n).prepare_for_training(transcripts)
PrepareForTraining ==
    /\ pc = "extracted"
    /\ \E n \in 1..MaxChunkLen :
        /\ max_chunk_length' = n
        /\ training_data' = prepare_for_training(batch.value, n)
    /\ pc' = "prepared"
    /\ UNCHANGED <<urls, fetches, batch>>
    /\ UNCHANGED pureVars /\ UNCHANGED fsVars

Next == ExtractTranscripts \/ PrepareForTraining

Spec == Init /\ [][Next]_vars

\* ------------------------------------------------------- the exporter's life

\* Batches extract_transcripts returns, to save.
SampleBatches ==
    {extract_transcripts(<<>>, <<>>).value,
     extract_transcripts(<<UShort, UNotUrl>>, <<Return(CuesA), FetchRaises>>).value,
     extract_transcripts(<<UWatch>>, <<FetchRaises>>).value}

Formats == SUPPORTED_FORMATS \cup {"bogus"}
Filenames == {"transcripts"}

\* Before YouTubeTranscriptExtractor(output_dir): the directory exists or not.
InitSave ==
    /\ pc = "new"
    /\ dirExists \in BOOLEAN
    /\ files = <<>>
    /\ ret = [op |-> "none"]
    /\ NoPure /\ NoBatch

\* __init__: setup_logging and ensure_output_directory.
Construct ==
    /\ pc = "new"
    /\ dirExists' = ensure_output_directory(dirExists)
    /\ ret' = [op |-> "init"]
    /\ pc' = "ready"
    /\ UNCHANGED files
    /\ UNCHANGED pureVars /\ UNCHANGED batchVars

\* extractor.save_transcripts(transcripts, format, filename)
SaveTranscripts ==
    /\ pc = "ready"
    /\ \E t \in SampleBatches, format \in Formats, filename \in Filenames :
        LET r == save_transcripts(dirExists, files, t, format, filename)
        IN /\ files' = r.files
           /\ ret' = [op |-> "save", format |-> format, filename |-> filename,
                      kind |-> r.kind,
                      result |-> IF r.kind = "return" THEN "filepath" ELSE r.error,
                      dirBefore |-> dirExists, filesBefore |-> files]
    /\ UNCHANGED <<pc, dirExists>>
    /\ UNCHANGED pureVars /\ UNCHANGED batchVars

\* Something else removes the output directory and what it holds.
RemoveDir ==
    /\ pc = "ready"
    /\ dirExists
    /\ dirExists' = FALSE
    /\ files' = <<>>
    /\ ret' = [op |-> "rmtree"]
    /\ UNCHANGED pc
    /\ UNCHANGED pureVars /\ UNCHANGED batchVars

NextSave == Construct \/ SaveTranscripts \/ RemoveDir

SpecSave == InitSave /\ [][NextSave]_vars

\* ------------------------------------------------------- the pure functions

\* The URLs of a recognised shape: scheme, www., shape, identifier, and what
\* trails the identifier.
Schemes == {<<>>, SchemeHttp, SchemeHttps}
WwwOptions == {<<>>, Www}
Shapes == {patterns[i] : i \in 1..Len(patterns)}
Ids == {IdABC, <<"d", "Q", "-", "_", "9">>}
Trailers ==
    {<<"&", "t", "=", "1">>,
     <<"?", "s", "i", "=", "v">>,
     <<"#", "t", "o", "p">>,
     <<"?", "u", "=">> \o ShortCore \o <<"Z">>,
     <<"&", "u", "=">> \o SchemeHttps \o WatchCore \o <<"Z">>}
Trails == {Concat(t) : t \in SeqsUpTo(Trailers, MaxSuffixes)}

ShapedUrl(scheme, www, shape, id, trail) == scheme \o www \o shape \o id \o trail

ShapedUrls ==
    {ShapedUrl(sc, w, sh, id, tr) :
        sc \in Schemes, w \in WwwOptions, sh \in Shapes, id \in Ids, tr \in Trails}

\* URLs of no recognised shape.
OtherUrls ==
    {UNotUrl, URaw, <<>>,
     ShortCore,
     SchemeHttps \o Www \o EmbedCore \o <<"?", "x">>,
     SchemeHttps \o <<"v", "i", "m", "e", "o", ".", "c", "o", "m", "/">> \o IdABC}

InitUrl ==
    /\ pc = "call"
    /\ input \in ShapedUrls \cup OtherUrls
    /\ output = <<>>
    /\ NoBatch /\ NoFs

\* output = extractor.extract_video_id(input)
ExtractVideoId ==
    /\ pc = "call"
    /\ output' = extract_video_id(input)
    /\ pc' = "done"
    /\ UNCHANGED input /\ UNCHANGED batchVars /\ UNCHANGED fsVars

NextUrl == ExtractVideoId

SpecUrl == InitUrl /\ [][NextUrl]_vars

CleanAlphabet == {"a", " ", NL, "[", "]", "(", ")"}

InitClean ==
    /\ pc = "call"
    /\ input \in SeqsUpTo(CleanAlphabet, MaxCleanLen)
    /\ output = <<>>
    /\ NoBatch /\ NoFs

\* output = extractor.clean_transcript_text(input)
CleanTranscriptText ==
    /\ pc = "call"
    /\ output' = clean_transcript_text(input)
    /\ pc' = "done"
    /\ UNCHANGED input /\ UNCHANGED batchVars /\ UNCHANGED fsVars

NextClean == CleanTranscriptText

SpecClean == InitClean /\ [][NextClean]_vars

ChunkAlphabet == {"a", "b", " "}

InitChunk ==
    /\ pc = "call"
    /\ input \in SeqsUpTo(ChunkAlphabet, MaxTextLen)
    /\ max_chunk_length \in 0..MaxChunkLen
    /\ output = <<>>
    /\ urls = <<>> /\ fetches = <<>> /\ batch = Return(<<>>) /\ training_data = <<>>
    /\ NoFs

\* output = AITrainingDataPreparer(max_chunk_length).chunk_text(input)
ChunkText ==
    /\ pc = "call"
    /\ output' = chunk_text(input, max_chunk_length)
    /\ pc' = "done"
    /\ UNCHANGED input /\ UNCHANGED batchVars /\ UNCHANGED fsVars

NextChunk == ChunkText

SpecChunk == InitChunk /\ [][NextChunk]_vars

\* The cues the captioning service may return: a text with an aside, a text
\* that is only an aside, a text of two lines; with and without a duration.
CueTexts ==
    {<<"a", " ", "[", "x", "]">>, <<"(", "y", ")">>, <<"b", NL, "c">>}
CueStarts == {0, 5}
Cues ==
    {[start |-> st, duration |-> 2, text |-> tx] : st \in CueStarts, tx \in CueTexts}
    \cup {[start |-> st, text |-> tx] : st \in CueStarts, tx \in CueTexts}

InitFetch ==
    /\ pc = "call"
    /\ input \in {FetchRaises} \cup {Return(c) : c \in SeqsUpTo(Cues, MaxCues)}
    /\ output = <<>>
    /\ NoBatch /\ NoFs

\* output = extractor.extract_single_transcript("ABC123"), the service doing
\* input.
ExtractSingleTranscript ==
    /\ pc = "call"
    /\ output' = extract_single_transcript(IdABC, input).value
    /\ pc' = "done"
    /\ UNCHANGED input /\ UNCHANGED batchVars /\ UNCHANGED fsVars

NextFetch == ExtractSingleTranscript

SpecFetch == InitFetch /\ [][NextFetch]_vars

\* ------------------------------------------------------- the batch claims

\* extract_video_id over the URLs of the batches.
VideoIdOf == [u \in BatchUrls |-> extract_video_id(u)]

Parses(url) == Truthy(VideoIdOf[url])

\* The key of a URL's entry: the parsed identifier, or the URL itself.
KeyOf(url) == IF Parses(url) THEN VideoIdOf[url].value ELSE url

InputKeys == {KeyOf(urls[i]) : i \in 1..Len(urls)}

\* extract_transcripts was called.
Called == pc # "ready"

\* C1: whatever the URLs and whatever the service does for each of them,
\* extract_transcripts returns (it does not raise), the service was called
\* once for every URL that parses, and the batch holds exactly one entry for
\* every key of the input: as many entries as there are distinct keys.
C1_BatchNeverAborts ==
    Called =>
        /\ batch.kind = "return"
        /\ Len(batch.calls) = Cardinality({i \in 1..Len(urls) : Parses(urls[i])})
        /\ {batch.value[k][1] : k \in 1..Len(batch.value)} = InputKeys
        /\ Len(batch.value) = Cardinality(InputKeys)

\* C1's case: the first fetch raises, the second succeeds, the third URL does
\* not parse, and all three have their entry.
C1_Witness ==
    /\ pc = "extracted"
    /\ urls = <<UShort, UWatch, UNotUrl>>
    /\ fetches[1] = FetchRaises
    /\ fetches[2] = Return(CuesA)
    /\ Len(batch.value) = 3
    /\ batch.value[1][2].status = "failed"
    /\ batch.value[2][2].status = "success"

RECURSIVE FirstOccurrences(_, _)
\* keys without the repetitions of a key already seen.
FirstOccurrences(keys, seen) ==
    IF keys = <<>> THEN <<>>
    ELSE IF Head(keys) \in seen THEN FirstOccurrences(Tail(keys), seen)
         ELSE <<Head(keys)>> \o FirstOccurrences(Tail(keys), seen \cup {Head(keys)})

\* The record the i-th URL produces.
RecordOf(i) ==
    IF Parses(urls[i])
    THEN IF fetches[i].kind = "return"
         THEN SuccessRecord(KeyOf(urls[i]), fetches[i].value)
         ELSE [video_id |-> KeyOf(urls[i]), error |-> fetches[i].error,
               status |-> "failed"]
    ELSE [error |-> "Invalid YouTube URL", status |-> "failed"]

\* The last URL with the key.
LastWith(key) ==
    CHOOSE i \in 1..Len(urls) :
        /\ KeyOf(urls[i]) = key
        /\ \A j \in 1..Len(urls) : KeyOf(urls[j]) = key => j <= i

\* C2: the keys of the batch are the keys of the input URLs in input order
\* (a repeated key stands where it first occurred), and the entry of a key
\* holds the record of the last URL with that key.
C2_InputOrderLastWriteWins ==
    (Called /\ batch.kind = "return") =>
        /\ DictKeys(batch.value)
             = FirstOccurrences([i \in 1..Len(urls) |-> KeyOf(urls[i])], {})
        /\ \A k \in 1..Len(batch.value) :
             batch.value[k][2] = RecordOf(LastWith(batch.value[k][1]))

\* C2's case: the first and the third URL have the same key, the fetch for
\* the first raised and the fetch for the third succeeded.
C2_Witness ==
    /\ pc = "extracted"
    /\ urls = <<UShort, UNotUrl, UShort>>
    /\ fetches[1] = FetchRaises
    /\ fetches[3] = Return(CuesA)
    /\ DictKeys(batch.value) = <<IdABC, UNotUrl>>
    /\ batch.value[1][2].status = "success"

\* C3: the service is called for the URLs that parse and for no other, and a
\* URL that does not parse has the record 'Invalid YouTube URL' under the URL
\* itself (unless a later URL has that very string as its key and overwrote
\* it); ["https://youtu.be/ABC123", "not a url"] gives the two entries
\* "ABC123" and "not a url".
C3_InvalidUrlRecorded ==
    (Called /\ batch.kind = "return") =>
        /\ batch.calls =
             LET P(u) == Parses(u)
                 parsed == SelectSeq(urls, P)
             IN [i \in 1..Len(parsed) |-> VideoIdOf[parsed[i]].value]
        /\ \A i \in 1..Len(urls) :
             (~Parses(urls[i]) /\ \A j \in (i + 1)..Len(urls) : KeyOf(urls[j]) # urls[i])
                 => /\ DictHas(batch.value, urls[i])
                    /\ DictGet(batch.value, urls[i])
                         = [error |-> "Invalid YouTube URL", status |-> "failed"]
        /\ urls = <<UShort, UNotUrl>> =>
             /\ DictKeys(batch.value) = <<IdABC, UNotUrl>>
             /\ batch.calls = <<IdABC>>

\* C3's case: the example of the specification.
C3_Witness ==
    /\ pc = "extracted"
    /\ urls = <<UShort, UNotUrl>>
    /\ Len(batch.value) = 2
    /\ batch.value[2] = <<UNotUrl, [error |-> "Invalid YouTube URL", status |-> "failed"]>>

\* The place of a key in the batch.
KeyIndex(key) == CHOOSE k \in 1..Len(batch.value) : batch.value[k][1] = key

\* C6: every training chunk belongs to a success record of the batch, the
\* chunks stand in the order of the batch, and the chunks of one video are the
\* chunks of its full_text in order, numbered 0, 1, 2, ...
C6_TrainingChunks ==
    pc = "prepared" =>
        /\ \A a \in 1..Len(training_data) :
             /\ DictHas(batch.value, training_data[a].video_id)
             /\ DictGet(batch.value, training_data[a].video_id).status = "success"
        /\ \A a, b \in 1..Len(training_data) :
             a < b => KeyIndex(training_data[a].video_id) <= KeyIndex(training_data[b].video_id)
        /\ \A k \in 1..Len(batch.value) :
             batch.value[k][2].status = "success" =>
                LET key == batch.value[k][1]
                    Mine(t) == t.video_id = key
                    chunks == chunk_text(batch.value[k][2].full_text, max_chunk_length)
                IN SelectSeq(training_data, Mine)
                     = [i \in 1..Len(chunks) |->
                          [video_id |-> key, chunk_index |-> i - 1, text |-> chunks[i]]]

\* C6's case: a batch of two success records with several chunks each and a
\* failure between them.
C6_Witness ==
    /\ pc = "prepared"
    /\ urls = <<UShort, UNotUrl, UWatch>>
    /\ fetches[1] = Return(CuesA)
    /\ fetches[3] = Return(CuesA)
    /\ max_chunk_length = 3
    /\ Len(training_data) >= 4
    /\ training_data[Len(training_data)].chunk_index > 0
    /\ training_data[Len(training_data)].video_id = IdXy
    /\ training_data[1].video_id = IdABC

\* ------------------------------------------------------- the chunker's claims

\* The length of the longest word of a chunk.
LongestWord(chunk) ==
    LET lens == {Len(Split(chunk)[j]) : j \in 1..Len(Split(chunk))}
    IN IF lens = {} THEN 0 ELSE CHOOSE m \in lens : \A l \in lens : l <= m

\* C4: for a positive max_chunk_length N, no chunk is longer than the larger
\* of N and its longest word, and a word longer than N is a chunk of its own,
\* whole.
C4_ChunkLengthBound ==
    (pc = "done" /\ max_chunk_length >= 1) =>
        /\ \A c \in 1..Len(output) :
             /\ Len(output[c]) <= Max(max_chunk_length, LongestWord(output[c]))
             /\ LongestWord(output[c]) > max_chunk_length => Len(Split(output[c])) = 1
        /\ \A j \in 1..Len(Split(input)) :
             Len(Split(input)[j]) > max_chunk_length =>
                \E c \in 1..Len(output) : output[c] = Split(input)[j]

\* C4's case: "b aaa" with N = 2: the long word stands alone.
C4_Witness ==
    /\ pc = "done"
    /\ max_chunk_length = 2
    /\ input = <<"b", " ", "a", "a", "a">>
    /\ output = <<<<"b">>, <<"a", "a", "a">>>>

\* C5: the chunks, joined with single spaces and split again, are the words
\* of the text, in order; every chunk is its own words joined by single
\* spaces, so no chunk begins or ends inside a word.
C5_WordsPreserved ==
    pc = "done" =>
        /\ Split(Join(output, <<" ">>)) = Split(input)
        /\ Concat([c \in 1..Len(output) |-> Split(output[c])]) = Split(input)
        /\ \A c \in 1..Len(output) :
             output[c] # <<>> /\ output[c] = Join(Split(output[c]), <<" ">>)

\* C5's case: several chunks, one of them of several words, and a last chunk
\* that only the flush after the loop emits.
C5_Witness ==
    /\ pc = "done"
    /\ max_chunk_length = 3
    /\ input = <<"a", " ", " ", "b", " ", "a", " ">>
    /\ output = <<<<"a">>, <<"b", " ", "a">>>>

\* ------------------------------------------------------- the exporter's claims

SavedPath == FilePath(ret.filename, ret.format)

\* C7: save with a format outside {json, txt, csv} raises the unsupported
\* format error (a ValueError) and leaves every file and the directory as
\* they were.
C7_UnsupportedFormatWritesNothing ==
    (ret.op = "save" /\ ret.format \notin {"json", "txt", "csv"}) =>
        /\ ret.kind = "raise"
        /\ ret.result = "ValueError"
        /\ files = ret.filesBefore
        /\ dirExists = ret.dirBefore

\* C7's case: the directory holds files and save('bogus') was called.
C7_Witness ==
    /\ ret.op = "save"
    /\ ret.format = "bogus"
    /\ ret.kind = "raise"
    /\ DOMAIN files = {FilePath("transcripts", "json"), FilePath("transcripts", "csv")}

\* C8 as stated: a save call with a supported format writes its file, also
\* when the directory does not exist when save is called.
C8_SaveCreatesDirectory ==
    (ret.op = "save" /\ ret.format \in {"json", "txt", "csv"}) =>
        /\ ret.kind = "return"
        /\ SavedPath \in DOMAIN files

\* C8 as amended: the constructor creates the directory when it is absent;
\* save creates no directory: with a supported format it writes its file when
\* the directory exists at the call, and when it does not, save raises the
\* file system's error and writes nothing.
C8_ConstructorCreatesDirectory ==
    /\ ret.op = "init" => dirExists
    /\ (ret.op = "save" /\ ret.format \in {"json", "txt", "csv"}) =>
         IF ret.dirBefore
         THEN ret.kind = "return" /\ SavedPath \in DOMAIN files /\ dirExists
         ELSE /\ ret.kind = "raise"
              /\ ret.result = "FileNotFoundError"
              /\ files = ret.filesBefore
              /\ ~dirExists

\* C8's case: save('json') is called after the directory was removed.
C8_Witness ==
    /\ ret.op = "save"
    /\ ret.format = "json"
    /\ ~ret.dirBefore
    /\ ret.kind = "raise"

\* ------------------------------------------------------- the parser's claim

\* C9: a URL of a recognised shape, with or without scheme and www. and
\* whatever query parameters or fragment trail the identifier, gives the
\* identifier; a URL of no recognised shape gives None.
C9_IdOfRecognisedShape ==
    pc = "done" =>
        /\ \A sc \in Schemes, w \in WwwOptions, sh \in Shapes, id \in Ids, tr \in Trails :
             input = ShapedUrl(sc, w, sh, id, tr) => output = Some(id)
        /\ input \in OtherUrls => output = None

\* ------------------------------------------------------- the normaliser's claim

\* Whether some open is followed by a close.
HasSpan(text, open, close) ==
    \E i, j \in 1..Len(text) : i < j /\ text[i] = open /\ text[j] = close

NoSpanLeft(text) == ~HasSpan(text, "[", "]") /\ ~HasSpan(text, "(", ")")

\* Whether every open ... close of the text lies on one line.
OneLineAsides(text) ==
    \A i, j \in 1..Len(text) :
        (/\ i < j
         /\ \/ text[i] = "[" /\ text[j] = "]"
            \/ text[i] = "(" /\ text[j] = ")")
        => \A k \in i..j : text[k] # NL

RECURSIVE FlatFrom(_, _)
\* Whether the brackets of text are balanced and neither nested nor
\* interleaved; inside is the closing bracket awaited, "" outside an aside.
FlatFrom(text, inside) ==
    IF text = <<>> THEN inside = ""
    ELSE LET c == Head(text)
         IN IF inside = ""
            THEN IF c \in {"]", ")"} THEN FALSE
                 ELSE FlatFrom(Tail(text), IF c = "[" THEN "]" ELSE IF c = "(" THEN ")" ELSE "")
            ELSE IF c = inside THEN FlatFrom(Tail(text), "")
                 ELSE IF c \in {"[", "]", "(", ")"} THEN FALSE
                 ELSE FlatFrom(Tail(text), inside)

Flat(text) == FlatFrom(text, "")

RECURSIVE OutsideFrom(_, _)
\* The characters of a flat text outside its asides.
OutsideFrom(text, inside) ==
    IF text = <<>> THEN <<>>
    ELSE LET c == Head(text)
         IN IF inside = ""
            THEN IF c = "[" THEN OutsideFrom(Tail(text), "]")
                 ELSE IF c = "(" THEN OutsideFrom(Tail(text), ")")
                 ELSE <<c>> \o OutsideFrom(Tail(text), "")
            ELSE OutsideFrom(Tail(text), IF c = inside THEN "" ELSE inside)

Outside(text) == OutsideFrom(text, "")

\* The words of text, separated by single spaces.
SingleSpaced(text) == Join(Split(text), <<" ">>)

C11_SuccessRecordShape ==
    (pc = "done" /\ output.status = "success") =>
        /\ input.kind = "return"
        /\ output.total_segments = Len(output.segments)
        /\ Len(output.segments) = Len(input.value)
        /\ \A i \in 1..Len(input.value) :
             /\ output.segments[i].start = input.value[i].start
             /\ output.segments[i].duration
                  = IF "duration" \in DOMAIN input.value[i]
                    THEN input.value[i].duration ELSE 0
             /\ output.segments[i].text = clean_transcript_text(input.value[i].text)
        /\ output.full_text
             = Strip(Join([i \in 1..Len(output.segments) |-> output.segments[i].text],
                          <<" ">>))

\* C11's case: three cues, the second of empty normalised text and without a
\* duration, so that full_text has two spaces in a row.
C11_Witness ==
    /\ pc = "done"
    /\ output.status = "success"
    /\ output.total_segments = 3
    /\ output.segments[2] = [start |-> 5, duration |-> 0, text |-> <<>>]
    /\ output.segments[1].text = <<"a">>
    /\ output.full_text = <<"a", " ", " ", "b", " ", "c">>

\* ------------------------------------------------------- the packing claim

\* The first word of a chunk.
FirstWord(chunk) == Split(chunk)[1]

\* C12: chunk_text packs greedily: for every two consecutive chunks, the
\* first included, the earlier chunk, one space and the first word of the
\* later chunk together are longer than max_chunk_length.
C12_GreedyPacking ==
    pc = "done" =>
        \A c \in 1..(Len(output) - 1) :
            Len(output[c]) + 1 + Len(FirstWord(output[c + 1])) > max_chunk_length

====
